---- MODULE Spec2Model ----
(***************************************************************************)
(* Volume subsystem of overdrive: the platform layer (core/src/volume/     *)
(* os.rs: get_volumes, unmount_volume) and the change watcher              *)
(* (core/src/volume/watcher.rs: VolumeWatcher).                            *)
(*                                                                         *)
(* Strings and byte vectors are sequences of one-character strings, so     *)
(* that lowercasing, trimming, prefix stripping and substring search are   *)
(* computed the way the code computes them.                                *)
(***************************************************************************)
EXTENDS Integers, Sequences, FiniteSets, TLC

(***************************************************************************)
(* Bounds of the model                                                     *)
(***************************************************************************)
\* number of clock advances in one behaviour of the watcher
MaxTicks == 1
\* number of clock advances where the debounce is timed in 10 ms steps
MaxDebounceTicks == 2
\* number of triggers whose arrival time is recorded; no further filesystem
\* notification is generated once that many are recorded
MaxTriggers == 3
\* number of mount-table changes made by the operating system
MaxOsChanges == 1
\* number of mount-table changes where every change raises a notification
MaxSignalledChanges == 2
\* number of disks sysinfo lists in one call of get_volumes
MaxDisks == 3
\* number of calls made to the mobile backend
MaxMobileCalls == 4
\* number of events the broadcast channel retains for a receiver
BroadcastCapacity == 1

(***************************************************************************)
(* String helpers (Rust std)                                               *)
(***************************************************************************)
UpperChars == <<"A","B","C","D","E","F","G","H","I","J","K","L","M",
                "N","O","P","Q","R","S","T","U","V","W","X","Y","Z">>
LowerChars == <<"a","b","c","d","e","f","g","h","i","j","k","l","m",
                "n","o","p","q","r","s","t","u","v","w","x","y","z">>

\* a byte that is not valid UTF-8, and the replacement character U+FFFD
InvalidByte == "\\xFF"
ReplacementChar == "U+FFFD"

\* char::to_lowercase on one character
LowerChar(c) ==
    IF \E i \in 1..Len(UpperChars) : UpperChars[i] = c
    THEN LowerChars[CHOOSE i \in 1..Len(UpperChars) : UpperChars[i] = c]
    ELSE c

\* str::to_lowercase
ToLowercase(s) == [i \in 1..Len(s) |-> LowerChar(s[i])]

\* std::str::from_utf8(bytes).unwrap_or("")
FromUtf8OrEmpty(bytes) ==
    IF \E i \in 1..Len(bytes) : bytes[i] = InvalidByte THEN <<>> ELSE bytes

\* String::from_utf8_lossy
FromUtf8Lossy(bytes) ==
    [i \in 1..Len(bytes) |-> IF bytes[i] = InvalidByte THEN ReplacementChar ELSE bytes[i]]

\* str::contains
Contains(s, p) ==
    \E i \in 1..(Len(s) - Len(p) + 1) : SubSeq(s, i, i + Len(p) - 1) = p

\* str::trim_start_matches: strips the prefix as often as it matches
RECURSIVE TrimStartMatches(_, _)
TrimStartMatches(s, p) ==
    IF Len(p) > 0 /\ Len(s) >= Len(p) /\ SubSeq(s, 1, Len(p)) = p
    THEN TrimStartMatches(SubSeq(s, Len(p) + 1, Len(s)), p)
    ELSE s

IsWhitespace(c) == c \in {" ", "\n", "\t"}

\* str::trim
RECURSIVE Trim(_)
Trim(s) ==
    IF Len(s) > 0 /\ IsWhitespace(s[1]) THEN Trim(Tail(s))
    ELSE IF Len(s) > 0 /\ IsWhitespace(s[Len(s)]) THEN Trim(SubSeq(s, 1, Len(s) - 1))
    ELSE s

(***************************************************************************)
(* os.rs: common                                                           *)
(***************************************************************************)
VirtualFilesystems ==
    { <<"d","e","v","f","s">>, <<"s","y","s","f","s">>, <<"p","r","o","c">>,
      <<"t","m","p","f","s">>, <<"r","a","m","f","s">>,
      <<"d","e","v","t","m","p","f","s">> }

\* is_virtual_filesystem comparing the kind as reported, without lowercasing
is_virtual_filesystem_exact(fs) == fs \in VirtualFilesystems

is_virtual_filesystem(fs) == ToLowercase(fs) \in VirtualFilesystems

(***************************************************************************)
(* os.rs: linux                                                            *)
(***************************************************************************)
Platform(msg) == [kind |-> "Platform", msg |-> msg]
Ok(v) == [ok |-> TRUE, value |-> v]
Err(e) == [ok |-> FALSE, error |-> e]

DevPrefix == <<"/","d","e","v","/">>

\* rot: device name (without /dev/) -> contents of
\* /sys/block/<name>/queue/rotational; a name outside its domain has no
\* readable file
detect_disk_type(device_name, rot) ==
    LET dev == TrimStartMatches(device_name, DevPrefix)
    IN  IF dev \notin DOMAIN rot THEN Ok("Unknown")
        ELSE IF Trim(rot[dev]) = <<"0">> THEN Ok("SSD")
        ELSE IF Trim(rot[dev]) = <<"1">> THEN Ok("HDD")
        ELSE Ok("Unknown")

\* findmnt: mount point -> [spawned, stdout, io_error] of the findmnt process
is_volume_readonly(mount_point, findmnt) ==
    LET output == findmnt[mount_point]
    IN  IF ~output.spawned
        THEN Err(Platform(<<"Failed to run findmnt: ", output.io_error>>))
        ELSE LET options == FromUtf8Lossy(output.stdout)
             IN  Ok(\/ Contains(options, <<"r","o",",">>)
                    \/ Contains(options, <<",","r","o">>)
                    \/ Contains(options, <<"r","o"," ">>))

\* FileSystem::from_string (types.rs): known kinds, Unrecognized otherwise
FileSystemFromString(s) ==
    LET l == ToLowercase(s)
    IN  IF l = <<"e","x","t","4">> THEN "EXT4"
        ELSE IF l = <<"n","t","f","s">> THEN "NTFS"
        ELSE "Unrecognized"

\* the closure run by spawn_blocking: filter and map over sys.disks()
DiskInfo(disks) ==
    SelectSeq(disks,
              LAMBDA disk : ~is_virtual_filesystem(FromUtf8OrEmpty(disk.file_system)))

\* the body of the for loop over disk_info, from entry i on
RECURSIVE GetVolumesLoop(_, _, _, _, _, _)
GetVolumesLoop(disk_info, i, volumes, exists, findmnt, rot) ==
    IF i > Len(disk_info) THEN Ok(volumes)
    ELSE LET d == disk_info[i]
         IN  IF d.mount_point \notin exists
             THEN GetVolumesLoop(disk_info, i + 1, volumes, exists, findmnt, rot)
             ELSE LET read_only == is_volume_readonly(d.mount_point, findmnt)
                      disk_type == detect_disk_type(d.name, rot)
                  IN  IF ~read_only.ok THEN Err(read_only.error)
                      ELSE IF ~disk_type.ok THEN Err(disk_type.error)
                      ELSE GetVolumesLoop(disk_info, i + 1,
                             Append(volumes,
                               [name |-> d.name,
                                mount_type |-> IF d.is_removable THEN "External"
                                               ELSE "System",
                                mount_point |-> d.mount_point,
                                mount_points |-> <<d.mount_point>>,
                                disk_type |-> disk_type.value,
                                file_system |->
                                    FileSystemFromString(FromUtf8Lossy(d.file_system)),
                                total_space |-> d.total_space,
                                available_space |-> d.available_space,
                                read_only |-> read_only.value]),
                             exists, findmnt, rot)

\* linux::get_volumes.  env = [join_ok, exists, findmnt, rot] is what the
\* platform answers during this call.
get_volumes(disks, env) ==
    IF ~env.join_ok THEN Err(Platform(<<"Task join error: ", "JoinError">>))
    ELSE GetVolumesLoop(DiskInfo(disks), 1, <<>>, env.exists, env.findmnt, env.rot)

\* GracefulSucceeded without the test of the exit status
GracefulSpawned(result) == result.spawned

\* `Ok(output) if output.status.success()`: result is one run of umount,
\* Err(io::Error) when it could not be run, otherwise exit status and stderr
GracefulSucceeded(result) == result.spawned /\ result.success

\* LazyUnmountResult without the test of the exit status
LazyUnmountResultUnchecked(lazy_result) ==
    IF ~lazy_result.spawned
    THEN Err(Platform(<<"Lazy unmount failed: ", lazy_result.io_error>>))
    ELSE Ok("unit")

\* the value unmount_volume returns after the lazy attempt
LazyUnmountResult(lazy_result) ==
    IF ~lazy_result.spawned
    THEN Err(Platform(<<"Lazy unmount failed: ", lazy_result.io_error>>))
    ELSE IF lazy_result.success THEN Ok("unit")
    ELSE Err(Platform(<<"Failed to unmount volume: ",
                        FromUtf8Lossy(lazy_result.stderr)>>))

(***************************************************************************)
(* The platform the program runs on                                        *)
(***************************************************************************)
DeviceId == "device-1"

PathData == "/mnt/data"
PathUsb == "/media/usb"
PathTmp == "/tmp"
Paths == {PathData, PathUsb, PathTmp}

NameSda == <<"/","d","e","v","/","s","d","a">>
NameSdb == <<"/","d","e","v","/","s","d","b">>
NameTmpfs == <<"t","m","p","f","s">>

FsExt4 == <<"e","x","t","4">>
FsNtfs == <<"N","T","F","S">>
FsTmpfsUpper == <<"T","m","p","F","S">>
FsProc == <<"p","r","o","c">>
FsInvalid == <<"e","x", InvalidByte>>

MkDisk(name, removable, mount_point, fs, total, avail) ==
    [name |-> name, is_removable |-> removable, mount_point |-> mount_point,
     file_system |-> fs, total_space |-> total, available_space |-> avail]

DiskData == MkDisk(NameSda, FALSE, PathData, FsExt4, 2, 1)
\* the same volume after its free space changed
DiskDataFuller == MkDisk(NameSda, FALSE, PathData, FsExt4, 2, 0)
DiskUsb == MkDisk(NameSdb, TRUE, PathUsb, FsNtfs, 1, 1)
DiskTmp == MkDisk(NameTmpfs, FALSE, PathTmp, FsTmpfsUpper, 1, 1)
DiskProcAtUsb == MkDisk(NameTmpfs, FALSE, PathUsb, FsProc, 0, 0)
DiskInvalidFs == MkDisk(NameSdb, TRUE, PathUsb, FsInvalid, 1, 1)

\* all sequences that list the elements of the finite set S once each
RECURSIVE SeqsOf(_)
SeqsOf(S) ==
    IF S = {} THEN { <<>> }
    ELSE UNION { { <<x>> \o t : t \in SeqsOf(S \ {x}) } : x \in S }

Range(f) == { f[i] : i \in DOMAIN f }

\* texts of io::Error
ENOENT == <<"E","N","O","E","N","T">>
EAGAIN == <<"E","A","G","A","I","N">>

\* answers of the findmnt process
FindmntRw == [spawned |-> TRUE, io_error |-> <<>>,
              stdout |-> <<"r","w",",","r","e","l","a","t","i","m","e","\n">>]
FindmntRo == [spawned |-> TRUE, io_error |-> <<>>,
              stdout |-> <<"r","o",",","r","e","l","a","t","i","m","e","\n">>]
FindmntExitFailure == [spawned |-> TRUE, io_error |-> <<>>, stdout |-> <<>>]
FindmntNotRun == [spawned |-> FALSE, io_error |-> ENOENT, stdout |-> <<>>]

RotSsd == <<"0","\n">>
RotHdd == <<"1","\n">>
DevSda == <<"s","d","a">>
DevSdb == <<"s","d","b">>


(***************************************************************************)
(* State                                                                   *)
(***************************************************************************)
VARIABLES
    \* VolumeWatcher
    running,              \* Arc<RwLock<bool>>
    ignored_paths,        \* Arc<RwLock<HashSet<PathBuf>>>
    start_result,         \* "none" before start(), then "ok" or "err"
    \* detection task spawned by start()
    pc_detect,            \* position of the detection task
    last_check,           \* Instant of the last processed trigger
    discovered_volumes,   \* Vec<Volume> of the current cycle
    enum_result,          \* "none", "ok" or "err": what get_volumes returned
    cycle_events,         \* events sent on event_tx in the current cycle
    pass_times,           \* clock value at the start of every enumeration pass
    \* mpsc::channel(1) between the two tasks
    check_rx,             \* number of () buffered in the channel
    trig_times,           \* clock value of every recorded trigger put on it
    \* platform watcher task (inotify)
    pc_inotify,           \* position of the platform watcher task
    inotify_pending,      \* the inotify descriptor has unread events
    \* VolumeManagerActor behind Arc<Mutex<..>>
    actor_volumes,        \* fingerprint -> Volume
    actor_lock,           \* "free" or the holder of the mutex
    actor_rx,             \* events the actor has received and not yet applied
    \* platform
    now,                  \* monotonic clock, in ms
    ticks,                \* number of clock advances so far
    os_disks,             \* the disks sysinfo reports
    os_changes,           \* number of mount-table changes so far
    \* one call of linux::unmount_volume
    um_pc, um_path, um_attempts, um_result,
    \* one call of linux::get_volumes
    gv_disks, gv_env, gv_result,
    \* the mobile backend
    mb_calls,             \* every call made to it so far, with what it returned
    \* a receiver of event_tx other than the actor
    event_rx,             \* [subscribed, queue, lagged] of that receiver
    \* stop()
    stopped_at            \* number of passes started when stop() first returned, -1 before

api_vars == <<running, ignored_paths, start_result>>
detect_vars == <<pc_detect, last_check, discovered_volumes, enum_result,
                 cycle_events, pass_times>>
chan_vars == <<check_rx, trig_times>>
inotify_vars == <<pc_inotify, inotify_pending>>
actor_vars == <<actor_volumes, actor_lock, actor_rx>>
clock_vars == <<now, ticks>>
os_vars == <<os_disks, os_changes>>
um_vars == <<um_pc, um_path, um_attempts, um_result>>
gv_vars == <<gv_disks, gv_env, gv_result>>
mobile_vars == <<mb_calls>>
bcast_vars == <<event_rx>>
stop_vars == <<stopped_at>>
vars == <<api_vars, detect_vars, chan_vars, inotify_vars, actor_vars,
          clock_vars, os_vars, um_vars, gv_vars, mobile_vars, bcast_vars,
          stop_vars>>

DEBOUNCE_MS == 100

\* how far the clock can advance in one step
Durations == {10, DEBOUNCE_MS}

(***************************************************************************)
(* VolumeFingerprint, VolumeEvent and VolumeManagerActor                   *)
(***************************************************************************)
\* identity from the device and the volume's intrinsic attributes, not from
\* its capacity
VolumeFingerprintNew(device_id, volume) ==
    <<device_id, volume.name, volume.mount_point, volume.file_system>>

VolumeAdded(volume) == [type |-> "VolumeAdded", volume |-> volume]
VolumeRemoved(volume) == [type |-> "VolumeRemoved", volume |-> volume]

volume_exists(actor, fingerprint) == fingerprint \in DOMAIN actor

actor_get_volumes(actor) == Range(actor)

\* Added inserts (overwriting), Removed deletes by fingerprint
actor_apply(actor, event) ==
    LET fp == VolumeFingerprintNew(DeviceId, event.volume)
    IN  IF event.type = "VolumeAdded"
        THEN [f \in DOMAIN actor \cup {fp} |->
                 IF f = fp THEN event.volume ELSE actor[f]]
        ELSE [f \in DOMAIN actor \ {fp} |-> actor[f]]

RECURSIVE actor_apply_all(_, _)
actor_apply_all(actor, events) ==
    IF events = <<>> THEN actor
    ELSE actor_apply_all(actor_apply(actor, Head(events)), Tail(events))

Fingerprints(volumes) == { VolumeFingerprintNew(DeviceId, v) : v \in volumes }

(***************************************************************************)
(* watcher.rs: the diff of one detection cycle                             *)
(***************************************************************************)
MapSeq(s, Op(_)) == [i \in 1..Len(s) |-> Op(s[i])]

\* AddedEvents without the volume_exists test
AddedEventsUnchecked(discovered, actor) == MapSeq(discovered, VolumeAdded)

\* "Find new volumes": the events of the first for loop, in sending order
AddedEvents(discovered, actor) ==
    MapSeq(SelectSeq(discovered,
                     LAMBDA volume :
                        ~volume_exists(actor, VolumeFingerprintNew(DeviceId, volume))),
           VolumeAdded)

\* RemovedEvents comparing whole volumes where the code compares fingerprints
RemovedEventsByValue(discovered, actor_list) ==
    MapSeq(SelectSeq(actor_list,
                     LAMBDA volume :
                        ~\E i \in 1..Len(discovered) : discovered[i] = volume),
           VolumeRemoved)

\* "Find removed volumes": the events of the second for loop, for the order
\* in which actor.get_volumes() lists the volumes
RemovedEvents(discovered, actor_list) ==
    MapSeq(SelectSeq(actor_list,
                     LAMBDA volume :
                        ~\E i \in 1..Len(discovered) :
                            VolumeFingerprintNew(DeviceId, discovered[i])
                              = VolumeFingerprintNew(DeviceId, volume)),
           VolumeRemoved)

\* one event_tx.send(event) as a receiver other than the actor sees it: an
\* error (ignored) without a receiver, otherwise the event is retained and
\* the oldest retained event is overwritten when the receiver is behind
BroadcastSendOne(rx, event) ==
    IF ~rx.subscribed THEN rx
    ELSE IF Len(rx.queue) < BroadcastCapacity
         THEN [rx EXCEPT !.queue = Append(@, event)]
         ELSE [rx EXCEPT !.queue = Append(Tail(@), event), !.lagged = TRUE]

RECURSIVE BroadcastSend(_, _)
BroadcastSend(rx, events) ==
    IF events = <<>> THEN rx
    ELSE BroadcastSend(BroadcastSendOne(rx, Head(events)), Tail(events))

\* a send that waits until the receiver has room for the events
SendWaitsForRoom(rx, events) ==
    ~rx.subscribed \/ Len(rx.queue) + Len(events) <= BroadcastCapacity

\* `let _ = event_tx.send(..)`: the call is not awaited and its result is
\* discarded, so it completes whatever the receivers have read
SendCompletes(rx, events) == TRUE

\* the debounce test with the comparison turned around
DebouncedInverted(elapsed) == elapsed > DEBOUNCE_MS

\* the debounce test of the detection loop
Debounced(elapsed) == elapsed < DEBOUNCE_MS

\* what get_volumes yields inside the detection loop
DiscoveredVolumes(result) == IF result.ok THEN result.value ELSE <<>>

(***************************************************************************)
(* The platform of the watcher                                             *)
(***************************************************************************)
\* what the platform answers while the detection task enumerates
EnvHealthy ==
    [join_ok |-> TRUE, exists |-> Paths,
     findmnt |-> [p \in Paths |-> FindmntRw],
     rot |-> (DevSda :> RotSsd) @@ (DevSdb :> RotHdd)]
EnvFindmntMissing ==
    [join_ok |-> TRUE, exists |-> Paths,
     findmnt |-> [p \in Paths |-> FindmntNotRun],
     rot |-> (DevSda :> RotSsd) @@ (DevSdb :> RotHdd)]
EnvJoinError ==
    [join_ok |-> FALSE, exists |-> Paths,
     findmnt |-> [p \in Paths |-> FindmntRw],
     rot |-> (DevSda :> RotSsd) @@ (DevSdb :> RotHdd)]
WatcherEnvs == {EnvHealthy, EnvFindmntMissing, EnvJoinError}

\* disks that can be attached to the machine of the watcher
WatcherDisks == {DiskData, DiskDataFuller, DiskUsb}
WatchedMountPoints == { d.mount_point : d \in WatcherDisks }

\* the actor states start() can be handed: any set of volumes enumerated
\* earlier, one per fingerprint
VolumeOf(disk) == get_volumes(<<disk>>, EnvHealthy).value[1]
ActorHolding(disks) ==
    [fp \in Fingerprints({ VolumeOf(d) : d \in disks }) |->
        CHOOSE v \in { VolumeOf(d) : d \in disks } :
            VolumeFingerprintNew(DeviceId, v) = fp]
ActorStates ==
    { ActorHolding(disks) : disks \in
        { D \in SUBSET WatcherDisks :
            \A d, e \in D : d.mount_point = e.mount_point => d = e } }

\* event_tx has no receiver besides the actor
NoSubscriber == [subscribed |-> FALSE, queue |-> <<>>, lagged |-> FALSE]

\* no call has returned yet
NoResult == [ok |-> FALSE, error |-> [kind |-> "none", msg |-> <<>>]]

NoEnv == [join_ok |-> TRUE, exists |-> {}, findmnt |-> <<>>, rot |-> <<>>]

(***************************************************************************)
(* Initial state: VolumeWatcher::new, the actor start() will be given,     *)
(* one disk and one virtual filesystem mounted                             *)
(***************************************************************************)
InitWatcher ==
    /\ running = TRUE
    /\ ignored_paths = {}
    /\ start_result = "none"
    /\ pc_detect = "unstarted"
    /\ last_check = 0
    /\ discovered_volumes = <<>>
    /\ enum_result = "none"
    /\ cycle_events = <<>>
    /\ pass_times = <<>>
    /\ check_rx = 0
    /\ trig_times = <<>>
    /\ pc_inotify = "unstarted"
    /\ inotify_pending = FALSE
    /\ actor_lock = "free"
    /\ actor_rx = <<>>
    /\ now = 0
    /\ ticks = 0
    /\ os_disks = {DiskTmp, DiskData}
    /\ os_changes = 0
    /\ um_pc = "idle"
    /\ um_path = "none"
    /\ um_attempts = <<>>
    /\ um_result = NoResult
    /\ gv_result = NoResult
    /\ mb_calls = <<>>
    /\ event_rx = NoSubscriber
    /\ stopped_at = -1

\* no get_volumes call is observed, the actor may hold any volumes
Init ==
    /\ InitWatcher
    /\ actor_volumes \in ActorStates
    /\ gv_disks = <<>>
    /\ gv_env = NoEnv

\* the same with an actor that holds no volume yet
InitEmptyActor ==
    /\ InitWatcher
    /\ actor_volumes = <<>>
    /\ gv_disks = <<>>
    /\ gv_env = NoEnv

(***************************************************************************)
(* The environment of the watcher: clock, mount table, notifications       *)
(***************************************************************************)
Tick(d, max_ticks) ==
    /\ ticks < max_ticks
    /\ now' = now + d
    /\ ticks' = ticks + 1
    /\ UNCHANGED <<api_vars, detect_vars, chan_vars, inotify_vars, actor_vars,
                   os_vars, um_vars, gv_vars,
                   mobile_vars, bcast_vars, stop_vars>>

os_change ==
    /\ os_changes < MaxOsChanges
    /\ os_changes' = os_changes + 1
    /\ UNCHANGED <<api_vars, detect_vars, chan_vars, inotify_vars, actor_vars,
                   clock_vars, um_vars, gv_vars,
                   mobile_vars, bcast_vars, stop_vars>>

\* the operating system mounts a disk on a free mount point
OsMount ==
    /\ \E d \in WatcherDisks :
          /\ \A e \in os_disks : e.mount_point # d.mount_point
          /\ os_disks' = os_disks \cup {d}
    /\ os_change

\* a disk is unplugged or unmounted
OsUnmount ==
    /\ \E d \in os_disks \cap WatcherDisks : os_disks' = os_disks \ {d}
    /\ os_change

\* the free space of a mounted disk changes
OsWrite ==
    /\ DiskData \in os_disks
    /\ os_disks' = (os_disks \ {DiskData}) \cup {DiskDataFuller}
    /\ os_change

\* something is created, deleted or modified under a watched directory
OsNotify ==
    /\ Len(trig_times) < MaxTriggers
    /\ inotify_pending' = TRUE
    /\ UNCHANGED <<pc_inotify, api_vars, detect_vars, chan_vars, actor_vars,
                   clock_vars, os_vars, um_vars, gv_vars,
                   mobile_vars, bcast_vars, stop_vars>>

(***************************************************************************)
(* watcher.rs: VolumeWatcher                                               *)
(***************************************************************************)
\* start(): spawn_platform_watcher fails when Inotify::init fails and then
\* nothing is spawned; otherwise both tasks are spawned
start ==
    /\ start_result = "none"
    /\ \E inotify_init_ok \in BOOLEAN :
          IF inotify_init_ok
          THEN /\ start_result' = "ok"
               /\ pc_inotify' = "loop"
               /\ pc_detect' = "spawned"
          ELSE /\ start_result' = "err"
               /\ UNCHANGED <<pc_inotify, pc_detect>>
    /\ UNCHANGED <<running, ignored_paths, last_check, discovered_volumes,
                   enum_result, cycle_events, pass_times,
                   inotify_pending, chan_vars, actor_vars, clock_vars,
                   os_vars, um_vars, gv_vars,
                   mobile_vars, bcast_vars, stop_vars>>

stop ==
    /\ running' = FALSE
    /\ stopped_at' = IF stopped_at < 0 THEN Len(pass_times) ELSE stopped_at
    /\ UNCHANGED <<ignored_paths, start_result, detect_vars, chan_vars,
                   inotify_vars, actor_vars, clock_vars, os_vars, um_vars,
                   gv_vars, mobile_vars, bcast_vars>>

ignore_path ==
    /\ \E path \in WatchedMountPoints : ignored_paths' = ignored_paths \cup {path}
    /\ UNCHANGED <<running, start_result, detect_vars, chan_vars,
                   inotify_vars, actor_vars, clock_vars, os_vars, um_vars,
                   gv_vars,
                   mobile_vars, bcast_vars, stop_vars>>

unignore_path ==
    /\ \E path \in WatchedMountPoints : ignored_paths' = ignored_paths \ {path}
    /\ UNCHANGED <<running, start_result, detect_vars, chan_vars,
                   inotify_vars, actor_vars, clock_vars, os_vars, um_vars,
                   gv_vars,
                   mobile_vars, bcast_vars, stop_vars>>

(***************************************************************************)
(* The platform watcher task of spawn_platform_watcher (linux)             *)
(***************************************************************************)
\* while *running.read().await
InotifyLoop ==
    /\ pc_inotify = "loop"
    /\ pc_inotify' = IF running THEN "read" ELSE "exited"
    /\ UNCHANGED <<inotify_pending, api_vars, detect_vars, chan_vars,
                   actor_vars, clock_vars, os_vars, um_vars, gv_vars,
                   mobile_vars, bcast_vars, stop_vars>>

\* read_events_blocking returns Ok once there are events to read
InotifyRead ==
    /\ pc_inotify = "read"
    /\ inotify_pending
    /\ inotify_pending' = FALSE
    /\ pc_inotify' = "send"
    /\ UNCHANGED <<api_vars, detect_vars, chan_vars, actor_vars, clock_vars,
                   os_vars, um_vars, gv_vars,
                   mobile_vars, bcast_vars, stop_vars>>

\* read_events_blocking returns Err (logged), the loop goes on
InotifyReadError ==
    /\ pc_inotify = "read"
    /\ pc_inotify' = "loop"
    /\ UNCHANGED <<inotify_pending, api_vars, detect_vars, chan_vars,
                   actor_vars, clock_vars, os_vars, um_vars, gv_vars,
                   mobile_vars, bcast_vars, stop_vars>>

\* check_tx.send(()).await: waits while the single slot is taken, fails
\* (logged) when the receiver is gone.  With timed, the time at which the
\* trigger reaches the channel is kept in trig_times.
InotifySend(timed) ==
    /\ pc_inotify = "send"
    /\ IF pc_detect = "exited"
       THEN UNCHANGED <<check_rx, trig_times>>
       ELSE /\ check_rx = 0
            /\ check_rx' = 1
            /\ trig_times' = IF timed THEN Append(trig_times, now) ELSE trig_times
    /\ pc_inotify' = "loop"
    /\ UNCHANGED <<inotify_pending, api_vars, detect_vars, actor_vars,
                   clock_vars, os_vars, um_vars, gv_vars,
                   mobile_vars, bcast_vars, stop_vars>>

(***************************************************************************)
(* The detection task spawned by start()                                   *)
(***************************************************************************)
\* let mut last_check = Instant::now()
DetectInit ==
    /\ pc_detect = "spawned"
    /\ last_check' = now
    /\ pc_detect' = "loop"
    /\ UNCHANGED <<discovered_volumes, enum_result, cycle_events, pass_times, api_vars, chan_vars, inotify_vars, actor_vars,
                   clock_vars, os_vars, um_vars, gv_vars,
                   mobile_vars, bcast_vars, stop_vars>>

\* DetectLoop without the test of the running flag
DetectLoopIgnoringRunning ==
    /\ pc_detect = "loop"
    /\ pc_detect' = "recv"
    /\ UNCHANGED <<last_check, discovered_volumes, enum_result, cycle_events,
                   pass_times, api_vars, chan_vars, inotify_vars,
                   actor_vars, clock_vars, os_vars, um_vars, gv_vars,
                   mobile_vars, bcast_vars, stop_vars>>

\* while *running.read().await
DetectLoop ==
    /\ pc_detect = "loop"
    /\ pc_detect' = IF running THEN "recv" ELSE "exited"
    /\ UNCHANGED <<last_check, discovered_volumes, enum_result, cycle_events,
                   pass_times, api_vars, chan_vars, inotify_vars,
                   actor_vars, clock_vars, os_vars, um_vars, gv_vars,
                   mobile_vars, bcast_vars, stop_vars>>

\* DetectRecv with a dropped trigger restarting the debounce window
DetectRecvResetting ==
    /\ pc_detect = "recv"
    /\ check_rx = 1
    /\ check_rx' = 0
    /\ last_check' = now
    /\ IF Debounced(now - last_check)
       THEN /\ pc_detect' = "loop"
            /\ UNCHANGED <<pass_times, cycle_events, enum_result, discovered_volumes>>
       ELSE /\ pass_times' = Append(pass_times, now)
            /\ cycle_events' = <<>>
            /\ enum_result' = "none"
            /\ discovered_volumes' = <<>>
            /\ pc_detect' = "enumerate"
    /\ UNCHANGED <<trig_times, api_vars, inotify_vars, actor_vars, clock_vars,
                   os_vars, um_vars, gv_vars, mobile_vars, bcast_vars,
                   stop_vars>>

\* check_rx.recv().await yields Some(()): debounce, or begin a pass
DetectRecv ==
    /\ pc_detect = "recv"
    /\ check_rx = 1
    /\ check_rx' = 0
    /\ IF Debounced(now - last_check)
       THEN /\ pc_detect' = "loop"
            /\ UNCHANGED <<last_check, pass_times, cycle_events, enum_result, discovered_volumes>>
       ELSE /\ last_check' = now
            /\ pass_times' = Append(pass_times, now)
            /\ cycle_events' = <<>>
            /\ enum_result' = "none"
            /\ discovered_volumes' = <<>>
            /\ pc_detect' = "enumerate"
    /\ UNCHANGED <<trig_times, api_vars, inotify_vars, actor_vars, clock_vars,
                   os_vars, um_vars, gv_vars,
                   mobile_vars, bcast_vars, stop_vars>>

\* check_rx.recv().await yields None: every sender is gone
DetectRecvClosed ==
    /\ pc_detect = "recv"
    /\ check_rx = 0
    /\ pc_inotify = "exited"
    /\ pc_detect' = "loop"
    /\ UNCHANGED <<last_check, discovered_volumes, enum_result, cycle_events,
                   pass_times, api_vars, chan_vars, inotify_vars,
                   actor_vars, clock_vars, os_vars, um_vars, gv_vars,
                   mobile_vars, bcast_vars, stop_vars>>

\* super::os::get_volumes().await and the match on its result, on a
\* platform that answers as one of envs
DetectEnumerateIn(envs) ==
    /\ pc_detect = "enumerate"
    /\ \E disks \in SeqsOf(os_disks), env \in envs :
          LET result == get_volumes(disks, env)
          IN  /\ discovered_volumes' = DiscoveredVolumes(result)
              /\ enum_result' = IF result.ok THEN "ok" ELSE "err"
    /\ pc_detect' = "lock"
    /\ UNCHANGED <<last_check, cycle_events, pass_times,
                   api_vars, chan_vars, inotify_vars, actor_vars, clock_vars,
                   os_vars, um_vars, gv_vars,
                   mobile_vars, bcast_vars, stop_vars>>

DetectEnumerate == DetectEnumerateIn(WatcherEnvs)

\* actor.lock().await
DetectLock ==
    /\ pc_detect = "lock"
    /\ actor_lock = "free"
    /\ actor_lock' = "watcher"
    /\ pc_detect' = "scan_added"
    /\ UNCHANGED <<last_check, discovered_volumes, enum_result, cycle_events,
                   pass_times, actor_volumes, actor_rx, api_vars,
                   chan_vars, inotify_vars, clock_vars, os_vars, um_vars,
                   gv_vars,
                   mobile_vars, bcast_vars, stop_vars>>

\* DetectScanAdded inserting what it found into the actor's map itself
DetectScanAddedInserting ==
    /\ pc_detect = "scan_added"
    /\ LET sent == AddedEvents(discovered_volumes, actor_volumes)
       IN  /\ SendCompletes(event_rx, sent)
           /\ cycle_events' = cycle_events \o sent
           /\ actor_rx' = actor_rx \o sent
           /\ event_rx' = BroadcastSend(event_rx, sent)
           /\ actor_volumes' = actor_apply_all(actor_volumes, sent)
    /\ pc_detect' = "scan_removed"
    /\ UNCHANGED <<last_check, discovered_volumes, enum_result, pass_times,
                   actor_lock, api_vars, chan_vars,
                   inotify_vars, clock_vars, os_vars, um_vars, gv_vars,
                   mobile_vars, stop_vars>>

\* DetectScanAdded with the mutex guard scoped to the first loop only
DetectScanAddedReleasing ==
    /\ pc_detect = "scan_added"
    /\ LET sent == AddedEvents(discovered_volumes, actor_volumes)
       IN  /\ SendCompletes(event_rx, sent)
           /\ cycle_events' = cycle_events \o sent
           /\ actor_rx' = actor_rx \o sent
           /\ event_rx' = BroadcastSend(event_rx, sent)
    /\ actor_lock' = "free"
    /\ pc_detect' = "scan_removed"
    /\ UNCHANGED <<last_check, discovered_volumes, enum_result, pass_times,
                   actor_volumes, api_vars, chan_vars,
                   inotify_vars, clock_vars, os_vars, um_vars, gv_vars,
                   mobile_vars, stop_vars>>

\* first for loop: one VolumeAdded per discovered volume the actor lacks
DetectScanAdded ==
    /\ pc_detect = "scan_added"
    /\ LET sent == AddedEvents(discovered_volumes, actor_volumes)
       IN  /\ SendCompletes(event_rx, sent)
           /\ cycle_events' = cycle_events \o sent
           /\ actor_rx' = actor_rx \o sent
           /\ event_rx' = BroadcastSend(event_rx, sent)
    /\ pc_detect' = "scan_removed"
    /\ UNCHANGED <<last_check, discovered_volumes, enum_result, pass_times,
                   actor_volumes, actor_lock, api_vars, chan_vars,
                   inotify_vars, clock_vars, os_vars, um_vars, gv_vars,
                   mobile_vars, stop_vars>>

\* DetectScanRemoved with its events sent ahead of those of the first loop
DetectScanRemovedFirst ==
    /\ pc_detect = "scan_removed"
    /\ \E actor_list \in SeqsOf(actor_get_volumes(actor_volumes)) :
          LET sent == RemovedEvents(discovered_volumes, actor_list)
          IN  /\ SendCompletes(event_rx, sent)
              /\ cycle_events' = sent \o cycle_events
              /\ actor_rx' = sent \o actor_rx
              /\ event_rx' = BroadcastSend(event_rx, sent)
       /\ actor_lock' = "free"
    /\ pc_detect' = "loop"
    /\ UNCHANGED <<last_check, discovered_volumes, enum_result, pass_times,
                   actor_volumes, api_vars, chan_vars, inotify_vars,
                   clock_vars, os_vars, um_vars, gv_vars,
                   mobile_vars, stop_vars>>

\* second for loop: one VolumeRemoved per actor volume not discovered; the
\* mutex guard is dropped at the end of the iteration
DetectScanRemoved ==
    /\ pc_detect = "scan_removed"
    /\ \E actor_list \in SeqsOf(actor_get_volumes(actor_volumes)) :
          LET sent == RemovedEvents(discovered_volumes, actor_list)
          IN  /\ SendCompletes(event_rx, sent)
              /\ cycle_events' = cycle_events \o sent
              /\ actor_rx' = actor_rx \o sent
              /\ event_rx' = BroadcastSend(event_rx, sent)
       /\ actor_lock' = "free"
    /\ pc_detect' = "loop"
    /\ UNCHANGED <<last_check, discovered_volumes, enum_result, pass_times,
                   actor_volumes, api_vars, chan_vars, inotify_vars,
                   clock_vars, os_vars, um_vars, gv_vars,
                   mobile_vars, stop_vars>>

(***************************************************************************)
(* The actor applies the events it received                                *)
(***************************************************************************)
ActorApply ==
    /\ actor_rx # <<>>
    /\ actor_lock = "free"
    /\ actor_volumes' = actor_apply(actor_volumes, Head(actor_rx))
    /\ actor_rx' = Tail(actor_rx)
    /\ UNCHANGED <<actor_lock, api_vars, detect_vars, chan_vars, inotify_vars,
                   clock_vars, os_vars, um_vars, gv_vars,
                   mobile_vars, bcast_vars, stop_vars>>

\* the watcher, its tasks and the actor while the watcher is running
Next ==
    \/ Tick(DEBOUNCE_MS, MaxTicks) \/ OsMount \/ OsUnmount \/ OsWrite
    \/ OsNotify
    \/ start
    \/ InotifyLoop \/ InotifyRead \/ InotifyReadError \/ InotifySend(FALSE)
    \/ DetectInit \/ DetectLoop \/ DetectRecv
    \/ DetectEnumerate \/ DetectLock \/ DetectScanAdded \/ DetectScanRemoved
    \/ ActorApply

Spec == Init /\ [][Next]_vars

\* the same with callers that ignore and unignore mount points
NextIgnore == Next \/ ignore_path \/ unignore_path

SpecIgnore == Init /\ [][NextIgnore]_vars

\* the watcher with the clock advancing in small and large steps and every
\* trigger timed, the mount table left alone
NextDebounce ==
    \/ \E d \in Durations : Tick(d, MaxDebounceTicks)
    \/ OsNotify
    \/ start
    \/ InotifyLoop \/ InotifyRead \/ InotifyReadError \/ InotifySend(TRUE)
    \/ DetectInit \/ DetectLoop \/ DetectRecv
    \/ DetectEnumerate \/ DetectLock \/ DetectScanAdded \/ DetectScanRemoved
    \/ ActorApply

SpecDebounce == InitEmptyActor /\ [][NextDebounce]_vars

\* the watcher with a caller that stops it
NextStop ==
    \/ Tick(DEBOUNCE_MS, MaxDebounceTicks) \/ OsNotify
    \/ start \/ stop
    \/ InotifyLoop \/ InotifyRead \/ InotifyReadError \/ InotifySend(FALSE)
    \/ DetectInit \/ DetectLoop \/ DetectRecv \/ DetectRecvClosed
    \/ DetectEnumerate \/ DetectLock \/ DetectScanAdded \/ DetectScanRemoved
    \/ ActorApply

SpecStop == InitEmptyActor /\ [][NextStop]_vars

\* the runtime runs every task that is ready; a blocking read that has
\* events returns, a send with a free slot completes.  Nothing obliges the
\* platform to produce notifications or read errors, or a caller to call.
TaskFairness ==
    /\ WF_vars(InotifyLoop) /\ WF_vars(InotifyRead) /\ WF_vars(InotifySend(FALSE))
    /\ WF_vars(DetectInit) /\ WF_vars(DetectLoop) /\ WF_vars(DetectRecv)
    /\ WF_vars(DetectRecvClosed) /\ WF_vars(DetectEnumerate)
    /\ WF_vars(DetectLock) /\ WF_vars(DetectScanAdded)
    /\ WF_vars(DetectScanRemoved) /\ WF_vars(ActorApply)

FairSpecStop == SpecStop /\ TaskFairness

(***************************************************************************)
(* os.rs: one call of linux::unmount_volume                                *)
(***************************************************************************)
IoErrors == {ENOENT, EAGAIN}
StderrTexts == { <<>>, <<"b","u","s","y">>, <<"n","o", InvalidByte>> }

\* what running umount can yield
UmountRuns ==
    { [spawned |-> FALSE, success |-> FALSE, io_error |-> e, stderr |-> <<>>] :
        e \in IoErrors }
    \cup
    { [spawned |-> TRUE, success |-> b, io_error |-> <<>>, stderr |-> s] :
        b \in BOOLEAN, s \in StderrTexts }

Mounted(path) == \E d \in os_disks : d.mount_point = path

\* umount can only succeed on a mount point; a successful umount detaches it
UmountRunsAt(path) ==
    { r \in UmountRuns : (r.spawned /\ r.success) => Mounted(path) }
Detach(path, result) ==
    IF result.spawned /\ result.success
    THEN { d \in os_disks : d.mount_point # path }
    ELSE os_disks

unmount_volume_call ==
    /\ um_pc = "idle"
    /\ \E path \in Paths : um_path' = path
    /\ um_pc' = "graceful"
    /\ um_attempts' = <<>>
    /\ um_result' = NoResult
    /\ UNCHANGED <<api_vars, detect_vars, chan_vars, inotify_vars, actor_vars,
                   clock_vars, os_vars, gv_vars,
                   mobile_vars, bcast_vars, stop_vars>>

\* "Try regular unmount first" and the match on its result
unmount_volume_graceful ==
    /\ um_pc = "graceful"
    /\ \E result \in UmountRunsAt(um_path) :
          /\ um_attempts' = Append(um_attempts,
                                   [args |-> <<um_path>>, result |-> result])
          /\ os_disks' = Detach(um_path, result)
          /\ IF GracefulSucceeded(result)
             THEN um_result' = Ok("unit") /\ um_pc' = "idle"
             ELSE um_result' = um_result /\ um_pc' = "lazy"
    /\ UNCHANGED <<um_path, os_changes, api_vars, detect_vars, chan_vars,
                   inotify_vars, actor_vars, clock_vars, gv_vars,
                   mobile_vars, bcast_vars, stop_vars>>

\* "If regular unmount fails, try lazy unmount"
unmount_volume_lazy ==
    /\ um_pc = "lazy"
    /\ \E lazy_result \in UmountRunsAt(um_path) :
          /\ um_attempts' = Append(um_attempts,
                                   [args |-> <<"-l", um_path>>, result |-> lazy_result])
          /\ os_disks' = Detach(um_path, lazy_result)
          /\ um_result' = LazyUnmountResult(lazy_result)
    /\ um_pc' = "idle"
    /\ UNCHANGED <<um_path, os_changes, api_vars, detect_vars, chan_vars,
                   inotify_vars, actor_vars, clock_vars, gv_vars,
                   mobile_vars, bcast_vars, stop_vars>>

NextUnmount ==
    \/ unmount_volume_call \/ unmount_volume_graceful \/ unmount_volume_lazy
    \/ OsMount

SpecUnmount == InitEmptyActor /\ [][NextUnmount]_vars

(***************************************************************************)
(* os.rs: calls of linux::get_volumes                                      *)
(***************************************************************************)
EnumDisks == {DiskData, DiskUsb, DiskTmp, DiskProcAtUsb, DiskInvalidFs}

\* sys.disks(): up to MaxDisks of the disks, in any order
EnumDiskLists ==
    UNION { SeqsOf(D) : D \in { E \in SUBSET EnumDisks : Cardinality(E) <= MaxDisks } }

RotMaps ==
    { (DevSda :> RotSsd) @@ (DevSdb :> RotHdd),
      (DevSda :> <<"x">>),
      <<>> }

EnumEnvs ==
    { [join_ok |-> j, exists |-> e, findmnt |-> f, rot |-> r] :
        j \in BOOLEAN,
        e \in { Paths, Paths \ {PathUsb}, {} },
        f \in { g \in [Paths -> {FindmntRw, FindmntRo, FindmntExitFailure,
                                 FindmntNotRun}] : g[PathTmp] = FindmntRw },
        r \in RotMaps }

\* the disks sysinfo lists and the answers of the platform are the inputs
InitEnum ==
    /\ InitWatcher
    /\ actor_volumes = <<>>
    /\ gv_disks \in EnumDiskLists
    /\ gv_env \in EnumEnvs

get_volumes_call ==
    /\ gv_result = NoResult
    /\ gv_result' = get_volumes(gv_disks, gv_env)
    /\ UNCHANGED <<gv_disks, gv_env, api_vars, detect_vars, chan_vars,
                   inotify_vars, actor_vars, clock_vars, os_vars, um_vars,
                   mobile_vars, bcast_vars, stop_vars>>

NextEnum == get_volumes_call

SpecEnum == InitEnum /\ [][NextEnum]_vars

(***************************************************************************)
(* os.rs: the mobile backend                                               *)
(***************************************************************************)
\* mobile::get_volumes
mobile_get_volumes == Ok(<<>>)

\* mobile::unmount_volume
mobile_unmount_volume(path) ==
    Err(Platform(<<"Volumes not supported on mobile platforms">>))

mobile_get_volumes_call ==
    /\ Len(mb_calls) < MaxMobileCalls
    /\ mb_calls' = Append(mb_calls, [op |-> "get_volumes", path |-> "none",
                                     result |-> mobile_get_volumes])
    /\ UNCHANGED <<api_vars, detect_vars, chan_vars, inotify_vars, actor_vars,
                   clock_vars, os_vars, um_vars, gv_vars, bcast_vars,
                   stop_vars>>

mobile_unmount_volume_call ==
    /\ Len(mb_calls) < MaxMobileCalls
    /\ \E path \in Paths :
          mb_calls' = Append(mb_calls, [op |-> "unmount_volume", path |-> path,
                                        result |-> mobile_unmount_volume(path)])
    /\ UNCHANGED <<api_vars, detect_vars, chan_vars, inotify_vars, actor_vars,
                   clock_vars, os_vars, um_vars, gv_vars, bcast_vars,
                   stop_vars>>

NextMobile == mobile_get_volumes_call \/ mobile_unmount_volume_call

SpecMobile == InitEmptyActor /\ [][NextMobile]_vars

(***************************************************************************)
(* watcher.rs: event_tx with a receiver other than the actor               *)
(***************************************************************************)
\* event_tx.subscribe()
Subscribe ==
    /\ ~event_rx.subscribed
    /\ event_rx' = [NoSubscriber EXCEPT !.subscribed = TRUE]
    /\ UNCHANGED <<api_vars, detect_vars, chan_vars, inotify_vars, actor_vars,
                   clock_vars, os_vars, um_vars, gv_vars, mobile_vars,
                   stop_vars>>

\* the receiver is dropped
Unsubscribe ==
    /\ event_rx.subscribed
    /\ event_rx' = NoSubscriber
    /\ UNCHANGED <<api_vars, detect_vars, chan_vars, inotify_vars, actor_vars,
                   clock_vars, os_vars, um_vars, gv_vars, mobile_vars,
                   stop_vars>>

\* recv() on the receiver: Err(Lagged) once after events were overwritten,
\* otherwise the oldest retained event
SubscriberRecv ==
    /\ event_rx.subscribed
    /\ IF event_rx.lagged
       THEN event_rx' = [event_rx EXCEPT !.lagged = FALSE]
       ELSE /\ event_rx.queue # <<>>
            /\ event_rx' = [event_rx EXCEPT !.queue = Tail(@)]
    /\ UNCHANGED <<api_vars, detect_vars, chan_vars, inotify_vars, actor_vars,
                   clock_vars, os_vars, um_vars, gv_vars, mobile_vars,
                   stop_vars>>

\* the watcher with a receiver that comes, reads at its own pace and goes
NextBroadcast ==
    \/ Tick(DEBOUNCE_MS, MaxTicks) \/ OsNotify
    \/ start
    \/ InotifyLoop \/ InotifyRead \/ InotifyReadError \/ InotifySend(FALSE)
    \/ DetectInit \/ DetectLoop \/ DetectRecv
    \/ DetectEnumerate \/ DetectLock \/ DetectScanAdded \/ DetectScanRemoved
    \/ ActorApply
    \/ Subscribe \/ Unsubscribe \/ SubscriberRecv

SpecBroadcast == Init /\ [][NextBroadcast]_vars

(***************************************************************************)
(* The watcher on a platform whose enumeration succeeds and whose every    *)
(* mount-table change raises a notification                                *)
(***************************************************************************)
\* what sysinfo and a healthy platform make of the mount table
OsVolumes ==
    Range(get_volumes(CHOOSE disks \in SeqsOf(os_disks) : TRUE, EnvHealthy).value)

\* a disk is mounted under a watched directory of the started watcher
OsMountSignalled ==
    /\ start_result = "ok"
    /\ os_changes < MaxSignalledChanges
    /\ \E d \in WatcherDisks :
          /\ \A e \in os_disks : e.mount_point # d.mount_point
          /\ os_disks' = os_disks \cup {d}
    /\ os_changes' = os_changes + 1
    /\ inotify_pending' = TRUE
    /\ UNCHANGED <<pc_inotify, api_vars, detect_vars, chan_vars, actor_vars,
                   clock_vars, um_vars, gv_vars, mobile_vars, bcast_vars,
                   stop_vars>>

\* a disk under a watched directory of the started watcher goes away
OsUnmountSignalled ==
    /\ start_result = "ok"
    /\ os_changes < MaxSignalledChanges
    /\ \E d \in os_disks \cap WatcherDisks : os_disks' = os_disks \ {d}
    /\ os_changes' = os_changes + 1
    /\ inotify_pending' = TRUE
    /\ UNCHANGED <<pc_inotify, api_vars, detect_vars, chan_vars, actor_vars,
                   clock_vars, um_vars, gv_vars, mobile_vars, bcast_vars,
                   stop_vars>>

NextConverge ==
    \/ Tick(DEBOUNCE_MS, MaxTicks)
    \/ OsMountSignalled \/ OsUnmountSignalled
    \/ start
    \/ InotifyLoop \/ InotifyRead \/ InotifySend(FALSE)
    \/ DetectInit \/ DetectLoop \/ DetectRecv
    \/ DetectEnumerateIn({EnvHealthy})
    \/ DetectLock \/ DetectScanAdded \/ DetectScanRemoved
    \/ ActorApply

SpecConverge == InitEmptyActor /\ [][NextConverge]_vars

\* the runtime runs every task that is ready and the actor applies what it
\* received; nothing obliges the platform to produce further notifications
ConvergeFairness ==
    /\ WF_vars(InotifyLoop) /\ WF_vars(InotifyRead) /\ WF_vars(InotifySend(FALSE))
    /\ WF_vars(DetectInit) /\ WF_vars(DetectLoop) /\ WF_vars(DetectRecv)
    /\ WF_vars(DetectEnumerateIn({EnvHealthy}))
    /\ WF_vars(DetectLock) /\ WF_vars(DetectScanAdded)
    /\ WF_vars(DetectScanRemoved) /\ WF_vars(ActorApply)

FairSpecConverge == SpecConverge /\ ConvergeFairness


(***************************************************************************)
(* Properties of the diff cycle                                            *)
(***************************************************************************)
\* the step that ends a detection cycle (the removed scan has sent its events)
CycleEnds == pc_detect = "scan_removed" /\ pc_detect' = "loop"

HasEvent(events, type) == \E i \in 1..Len(events) : events[i].type = type

\* C1: convergence.  Whenever a detection cycle whose enumeration succeeded
\* ends with no path ignored, applying every event the cycle sent to the
\* actor state the cycle diffed against leaves the actor with exactly the
\* fingerprints of the enumerated volumes.
C1_Convergence ==
    [][ (CycleEnds /\ enum_result = "ok" /\ ignored_paths = {})
        => DOMAIN actor_apply_all(actor_volumes, cycle_events')
             = Fingerprints(Range(discovered_volumes)) ]_vars

\* a cycle has sent an addition and a removal, the actor has applied both and
\* holds what was enumerated
C1_Witness ==
    /\ pc_detect = "loop"
    /\ enum_result = "ok"
    /\ ignored_paths = {}
    /\ HasEvent(cycle_events, "VolumeAdded")
    /\ HasEvent(cycle_events, "VolumeRemoved")
    /\ actor_rx = <<>>
    /\ DOMAIN actor_volumes = Fingerprints(Range(discovered_volumes))

\* C2: the events of one cycle are VolumeAdded(v) for exactly the enumerated
\* volumes v whose fingerprint the actor lacks and VolumeRemoved(v) for
\* exactly the actor's volumes v whose fingerprint was not enumerated; a
\* fingerprint in both sets has no event.
C2_ExactDiff ==
    [][ (CycleEnds /\ enum_result = "ok")
        => Range(cycle_events')
             = { VolumeAdded(v) : v \in
                   { w \in Range(discovered_volumes) :
                       VolumeFingerprintNew(DeviceId, w) \notin DOMAIN actor_volumes } }
               \cup
               { VolumeRemoved(v) : v \in
                   { w \in Range(actor_volumes) :
                       VolumeFingerprintNew(DeviceId, w)
                         \notin Fingerprints(Range(discovered_volumes)) } } ]_vars

\* a finished cycle that sent one addition while another volume, known to the
\* actor with a different free space, was enumerated and got no event
C2_Witness ==
    /\ pc_detect = "loop"
    /\ enum_result = "ok"
    /\ Len(cycle_events) = 1
    /\ cycle_events[1].type = "VolumeAdded"
    /\ \E i \in 1..Len(discovered_volumes) :
          LET v == discovered_volumes[i]
              fp == VolumeFingerprintNew(DeviceId, v)
          IN  /\ fp \in DOMAIN actor_volumes
              /\ actor_volumes[fp] # v

\* C3: ignore suppression.  No cycle sends VolumeAdded or VolumeRemoved for
\* a volume whose mount point is in the ignored-paths set when it is sent.
C3_IgnoreSuppression ==
    [][ \A i \in (Len(cycle_events) + 1)..Len(cycle_events') :
            pc_detect \in {"scan_added", "scan_removed"}
            => cycle_events'[i].volume.mount_point \notin ignored_paths ]_vars

\* C4: a cycle whose enumeration returned an error sends no event.
C4_ErrorSendsNothing == enum_result = "err" => cycle_events = <<>>

(***************************************************************************)
(* Properties of the debounce and of stop()                                *)
(***************************************************************************)
\* C5: debounce counting.  Once exactly two triggers have reached the check
\* channel and both have been received, one enumeration pass has started if
\* they arrived less than DEBOUNCE_MS apart and two passes if they arrived
\* more than DEBOUNCE_MS apart, however soon after start() the first one came.
C5_DebounceCounting ==
    (Len(trig_times) = 2 /\ check_rx = 0)
    => LET gap == trig_times[2] - trig_times[1]
       IN  /\ gap < DEBOUNCE_MS => Len(pass_times) = 1
           /\ gap > DEBOUNCE_MS => Len(pass_times) = 2

\* C6: any two enumeration passes start at least DEBOUNCE_MS apart.
C6_PassesApart ==
    \A i, j \in 1..Len(pass_times) :
        i < j => pass_times[j] - pass_times[i] >= DEBOUNCE_MS

\* two passes were started, and of the triggers that arrived from the first
\* pass on and before the second, one was dropped
C6_Witness ==
    /\ Len(pass_times) = 2
    /\ Cardinality({ k \in 1..Len(trig_times) :
                       /\ pass_times[1] <= trig_times[k]
                       /\ trig_times[k] < pass_times[2] }) >= 2

\* C7: once stop() has been called on a started watcher, the spawned
\* detection task eventually exits, whether or not a further trigger arrives.
C7_StopExits ==
    []((~running /\ pc_detect # "unstarted") => <>(pc_detect = "exited"))

(***************************************************************************)
(* Properties of unmount_volume and get_volumes                            *)
(***************************************************************************)
UnmountReturned == um_pc = "idle" /\ um_result # NoResult

RunSucceeded(result) == result.spawned /\ result.success

\* the diagnostic of one run of umount: the io::Error, or its stderr as text
Diagnostic(result) ==
    IF result.spawned THEN FromUtf8Lossy(result.stderr) ELSE result.io_error

\* C8: unmount_volume returns Ok exactly when the graceful attempt succeeded
\* or, after it failed, the lazy attempt succeeded; an error it returns is
\* VolumeError::Platform with the diagnostic of the lazy attempt.
C8_UnmountResult ==
    UnmountReturned =>
        /\ um_result.ok <=>
              \/ RunSucceeded(um_attempts[1].result)
              \/ /\ Len(um_attempts) = 2
                 /\ ~RunSucceeded(um_attempts[1].result)
                 /\ RunSucceeded(um_attempts[2].result)
        /\ ~um_result.ok =>
              /\ um_result.error.kind = "Platform"
              /\ Len(um_attempts) = 2
              /\ um_result.error.msg[2] = Diagnostic(um_attempts[2].result)
              /\ Diagnostic(um_attempts[1].result) # Diagnostic(um_attempts[2].result)
                    => um_result.error.msg[2] # Diagnostic(um_attempts[1].result)

\* both attempts failed with different diagnostics and the call returned
C8_Witness ==
    /\ UnmountReturned
    /\ ~um_result.ok
    /\ Len(um_attempts) = 2
    /\ um_attempts[1].result.spawned
    /\ um_attempts[2].result.spawned
    /\ um_attempts[1].result.stderr # um_attempts[2].result.stderr

C10_DetectionNeverFails ==
    (gv_result # NoResult /\ gv_env.join_ok) => gv_result.ok

(***************************************************************************)
(* Properties of the mobile backend and of enumeration filtering           *)
(***************************************************************************)
\* C11: on the mobile backend every get_volumes call returns Ok with an
\* empty list and every unmount_volume call, whatever its path, returns the
\* error VolumeError::Unsupported.
C11_MobileContract ==
    \A i \in 1..Len(mb_calls) :
        /\ mb_calls[i].op = "get_volumes" => mb_calls[i].result = Ok(<<>>)
        /\ mb_calls[i].op = "unmount_volume" =>
              /\ ~mb_calls[i].result.ok
              /\ mb_calls[i].result.error.kind = "Unsupported"

\* the identity of a listed disk that a volume keeps
DiskKey(d) == <<d.name, d.mount_point, d.total_space, d.available_space>>

\* the reported disks whose kind, compared without regard to case, is not
\* denylisted and whose mount point exists
VisibleDisks(disks, exists) ==
    SelectSeq(disks,
              LAMBDA d :
                 /\ \A kind \in VirtualFilesystems :
                       ToLowercase(FromUtf8Lossy(d.file_system)) # kind
                 /\ d.mount_point \in exists)

\* C12: a successful get_volumes lists exactly the reported disks whose
\* filesystem kind is not in the denylist (case-insensitively) and whose
\* mount point exists, one volume per such disk.
C12_EnumerationFiltering ==
    (gv_result # NoResult /\ gv_result.ok) =>
        LET visible == VisibleDisks(gv_disks, gv_env.exists)
        IN  /\ Len(gv_result.value) = Len(visible)
            /\ \A i \in 1..Len(visible) :
                  DiskKey(gv_result.value[i]) = DiskKey(visible[i])

\* a call that was given a regular disk, a tmpfs reported as "TmpFS" and a
\* disk whose mount point is gone, and listed the first only
C12_Witness ==
    /\ gv_result # NoResult
    /\ gv_result.ok
    /\ Len(gv_disks) = 3
    /\ DiskTmp \in Range(gv_disks)
    /\ DiskUsb \in Range(gv_disks)
    /\ PathUsb \notin gv_env.exists
    /\ Len(gv_result.value) = 1
    /\ gv_result.value[1].mount_point = PathData


(***************************************************************************)
(* Properties of the event channel and of the actor's map                  *)
(***************************************************************************)
\* C13: slow or absent receivers never block the watcher.  Whenever the
\* detection task is about to send the events of a scan, the scan can
\* proceed, whatever the receiver has left unread, so the cycle goes on to
\* its end, where the actor lock is released.
C13_SendsNeverBlock ==
    /\ pc_detect = "scan_added" => ENABLED DetectScanAdded
    /\ pc_detect = "scan_removed" => ENABLED DetectScanRemoved

\* a cycle sent two events to a receiver that read none of them, so that one
\* was overwritten, and ended with the lock released
C13_Witness ==
    /\ pc_detect = "loop"
    /\ Len(cycle_events) = 2
    /\ event_rx.subscribed
    /\ event_rx.lagged
    /\ actor_lock = "free"

\* C14: diffing is read-only against the actor.  No step of the detection
\* task changes the actor's map, and the map changes only by the actor
\* applying the event at the head of what it received.
C14_DiffReadOnly ==
    [][ /\ pc_detect' # pc_detect => actor_volumes' = actor_volumes
        /\ actor_volumes' # actor_volumes =>
              /\ actor_rx # <<>>
              /\ actor_volumes' = actor_apply(actor_volumes, Head(actor_rx))
              /\ actor_rx' = Tail(actor_rx) ]_vars

\* a cycle has ended and sent events, none of which the actor has applied:
\* its map still differs from what was enumerated
C14_Witness ==
    /\ pc_detect = "loop"
    /\ enum_result = "ok"
    /\ cycle_events # <<>>
    /\ actor_rx = cycle_events
    /\ DOMAIN actor_volumes # Fingerprints(Range(discovered_volumes))


(***************************************************************************)
(* Properties of convergence, of the debounce window and of stop()         *)
(***************************************************************************)
\* the actor holds exactly the volumes the operating system has
Converged == DOMAIN actor_volumes = Fingerprints(OsVolumes)

\* C15: eventual convergence.  Once the mount table has changed for the
\* last time and a notification is pending for the watcher, which has
\* processed a trigger before and is waiting for the next, the actor
\* eventually holds exactly the volumes of the operating system, even if no
\* further notification follows.
C15_EventualConvergence ==
    []((/\ os_changes = MaxSignalledChanges
        /\ inotify_pending
        /\ pass_times # <<>>
        /\ pc_detect = "recv") => <>Converged)

\* C16: the debounce window is measured from the last processed trigger.
\* A trigger dropped by the debounce test leaves last_check alone, so that
\* last_check is always the start of the latest pass; and a trigger received
\* DEBOUNCE_MS or more after last_check starts a pass, however many
\* triggers were dropped in between.
C16_WindowFromLastPass ==
    /\ [](pass_times # <<>> => last_check = pass_times[Len(pass_times)])
    /\ [][ (pc_detect = "recv" /\ check_rx' < check_rx) =>
              IF now - last_check < DEBOUNCE_MS
              THEN last_check' = last_check /\ pass_times' = pass_times
              ELSE last_check' = now /\ pass_times' = Append(pass_times, now) ]_vars

\* a pass was started and a trigger that arrived after its start has been
\* received and dropped: the window still starts at the pass
C16_Witness ==
    /\ Len(pass_times) = 1
    /\ pc_detect = "recv"
    /\ check_rx = 0
    /\ \E k \in 1..Len(trig_times) : trig_times[k] > pass_times[1]
    /\ last_check = pass_times[1]
    /\ now > last_check

\* C17: after stop() has returned the detection task starts at most one
\* further enumeration pass: once stopped it never goes back to waiting for
\* a trigger, it exits when it next tests the flag and sends nothing after
\* that; and nothing sets the flag to running again.
C17_AtMostOnePassAfterStop ==
    /\ [](stopped_at >= 0 => Len(pass_times) <= stopped_at + 1)
    /\ [][ ~running => /\ ~running'
                       /\ ~(pc_detect # "recv" /\ pc_detect' = "recv")
                       /\ pc_detect = "loop" => pc_detect' \in {"loop", "exited"} ]_vars
    /\ [][ pc_detect = "exited" =>
              pc_detect' = "exited" /\ cycle_events' = cycle_events ]_vars

\* stop() returned while the task was waiting, the task then received a
\* trigger, made one pass that sent an event, and exited
C17_Witness ==
    /\ stopped_at = 0
    /\ Len(pass_times) = 1
    /\ cycle_events # <<>>
    /\ pc_detect = "exited"


(***************************************************************************)
(* Properties of the order of events and of the actor lock                 *)
(***************************************************************************)
\* C18: among the events sent in one detection cycle no VolumeRemoved
\* precedes a VolumeAdded.
C18_AddedBeforeRemoved ==
    \A i, j \in 1..Len(cycle_events) :
        (i < j /\ cycle_events[j].type = "VolumeAdded")
        => cycle_events[i].type = "VolumeAdded"

\* a finished cycle that sent an addition and then a removal
C18_Witness ==
    /\ pc_detect = "loop"
    /\ Len(cycle_events) = 2
    /\ cycle_events[1].type = "VolumeAdded"
    /\ cycle_events[2].type = "VolumeRemoved"

\* C19: consistent snapshot.  The detection task holds the actor lock
\* exactly while it is in the two scans of a cycle: not while it waits or
\* enumerates, and no more once the cycle has ended; while it holds the
\* lock the actor's map does not change.
C19_ConsistentSnapshot ==
    /\ [](actor_lock = "watcher" <=> pc_detect \in {"scan_added", "scan_removed"})
    /\ [][ (pc_detect \in {"scan_added", "scan_removed"})
              => (actor_volumes' = actor_volumes) ]_vars

\* between the two scans the actor has received an event of the cycle and
\* has to wait for the lock before it can apply it
C19_Witness ==
    /\ pc_detect = "scan_removed"
    /\ actor_lock = "watcher"
    /\ actor_rx # <<>>
    /\ ~ENABLED ActorApply


====
